---------------------------- MODULE Spec2Model ----------------------------
(***************************************************************************)
(* Checkout URL utilities of the Dodo Payments TypeScript SDK              *)
(* (src/ISSUE_178_ANALYSIS.md, "src/lib/checkout-utils.ts", lines 191-421).*)
(*                                                                         *)
(* Strings are sequences of character codes (ASCII).  null and undefined   *)
(* are the two one-element sequences NULL and UNDEFINED, whose element is  *)
(* no character code.  The platform's URL class is modelled for absolute   *)
(* URLs without credentials, port or dot segments: scheme, host, path,     *)
(* query and fragment are split and normalised as the WHATWG parser does,  *)
(* the query is decoded into URLSearchParams and encoded back by the       *)
(* application/x-www-form-urlencoded serializer.                           *)
(***************************************************************************)
EXTENDS Integers, Sequences, FiniteSets, TLC

VARIABLES env, pc, op, args, result, raised, href

vars == <<env, pc, op, args, result, raised, href>>

-----------------------------------------------------------------------------
(* Characters and strings                                                  *)

Printable ==
    <<" ", "!", "DQUOTE", "#", "$", "%", "&", "'", "LPAREN", "RPAREN", "STAR", "+", ",",
      "-", ".", "/", "0", "1", "2", "3", "4", "5", "6", "7", "8", "9", ":",
      ";", "<", "=", ">", "?", "@", "A", "B", "C", "D", "E", "F", "G", "H",
      "I", "J", "K", "L", "M", "N", "O", "P", "Q", "R", "S", "T", "U", "V",
      "W", "X", "Y", "Z", "[", "BSLASH", "]", "^", "_", "BTICK", "a", "b", "c",
      "d", "e", "f", "g", "h", "i", "j", "k", "l", "m", "n", "o", "p", "q",
      "r", "s", "t", "u", "v", "w", "x", "y", "z", "{", "|", "}", "~">>

Ord ==
    [c \in {Printable[i] : i \in DOMAIN Printable} |->
        31 + (CHOOSE i \in DOMAIN Printable : Printable[i] = c)]

S(chars) ==
    [i \in 1..Len(chars) |-> Ord[chars[i]]]

NULL == <<-1>>

UNDEFINED == <<-2>>

IsString(v) ==
    v # NULL /\ v # UNDEFINED

Falsy(v) ==
    v = NULL \/ v = UNDEFINED \/ v = <<>>

IsUpper(c) ==
    c >= Ord["A"] /\ c <= Ord["Z"]

IsLower(c) ==
    c >= Ord["a"] /\ c <= Ord["z"]

IsDigit(c) ==
    c >= Ord["0"] /\ c <= Ord["9"]

toLowerCase(s) ==
    [i \in 1..Len(s) |-> IF IsUpper(s[i]) THEN s[i] + 32 ELSE s[i]]

Drop(s, n) ==
    SubSeq(s, n + 1, Len(s))

includes(s, sub) ==
    \E i \in 0..(Len(s) - Len(sub)) : SubSeq(s, i + 1, i + Len(sub)) = sub

(* Index of the first character of s that is in set, Len(s) + 1 if none.   *)
FirstOf(s, set) ==
    IF \E i \in 1..Len(s) : s[i] \in set
    THEN CHOOSE i \in 1..Len(s) :
            s[i] \in set /\ \A j \in 1..(i - 1) : s[j] \notin set
    ELSE Len(s) + 1

RECURSIVE Concat(_)
Concat(ss) ==
    IF ss = <<>> THEN <<>> ELSE Head(ss) \o Concat(Tail(ss))

-----------------------------------------------------------------------------
(* Percent encoding                                                        *)

HexDigit(n) ==
    IF n < 10 THEN Ord["0"] + n ELSE Ord["A"] + (n - 10)

IsHex(c) ==
    \/ IsDigit(c)
    \/ (c >= Ord["A"] /\ c <= Ord["F"])
    \/ (c >= Ord["a"] /\ c <= Ord["f"])

HexValue(c) ==
    IF IsDigit(c) THEN c - Ord["0"]
    ELSE IF IsUpper(c) THEN c - Ord["A"] + 10
    ELSE c - Ord["a"] + 10

PercentEncode(c) ==
    <<Ord["%"], HexDigit(c \div 16), HexDigit(c % 16)>>

(* Percent-decode: "%" followed by two hex digits is the byte they name,   *)
(* any other character stands for itself.  (Bytes are below 128 here, so   *)
(* the UTF-8 decoding that follows is the identity.)                       *)
RECURSIVE PercentDecode(_)
PercentDecode(s) ==
    IF s = <<>> THEN <<>>
    ELSE IF s[1] = Ord["%"] /\ Len(s) >= 3 /\ IsHex(s[2]) /\ IsHex(s[3])
         THEN <<16 * HexValue(s[2]) + HexValue(s[3])>> \o PercentDecode(Drop(s, 3))
         ELSE <<s[1]>> \o PercentDecode(Tail(s))

(* application/x-www-form-urlencoded byte serializer: space becomes "+",   *)
(* star, "-", ".", "_", digits and letters stay, every other byte is       *)
(* percent-encoded.                                                        *)
UrlencodedByte(c) ==
    IF c = Ord[" "] THEN <<Ord["+"]>>
    ELSE IF \/ c \in {Ord["STAR"], Ord["-"], Ord["."], Ord["_"]}
            \/ IsDigit(c) \/ IsUpper(c) \/ IsLower(c)
         THEN <<c>>
         ELSE PercentEncode(c)

UrlencodedString(s) ==
    Concat([i \in 1..Len(s) |-> UrlencodedByte(s[i])])

(* Percent-encoding of a URL component: the characters of set (and the     *)
(* controls, space and non-ASCII) are percent-encoded, the others kept.    *)
EncodeComponent(s, set) ==
    Concat([i \in 1..Len(s) |->
        IF s[i] <= 32 \/ s[i] > 126 \/ s[i] \in set
        THEN PercentEncode(s[i]) ELSE <<s[i]>>])

-----------------------------------------------------------------------------
(* The platform URL class: new URL(s), url.searchParams, url.toString()    *)

Ascii == 0..127

SchemeChars ==
    {c \in Ascii : IsLower(c) \/ IsUpper(c) \/ IsDigit(c)
                     \/ c \in {Ord["+"], Ord["-"], Ord["."]}}

SpecialSchemes ==
    {S(<<"h","t","t","p">>), S(<<"h","t","t","p","s">>),
     S(<<"f","t","p">>), S(<<"w","s">>), S(<<"w","s","s">>)}

Slashes == {Ord["/"], Ord["BSLASH"]}

(* Forbidden domain code points of the host parser.                        *)
ForbiddenHost ==
    {c \in Ascii : c <= 32 \/ c = 127}
      \cup {Ord["#"], Ord["/"], Ord[":"], Ord["<"], Ord[">"], Ord["?"],
            Ord["@"], Ord["["], Ord["BSLASH"], Ord["]"], Ord["^"], Ord["|"],
            Ord["%"]}

PathEncodeSet ==
    {Ord["DQUOTE"], Ord["#"], Ord["<"], Ord[">"], Ord["?"], Ord["BTICK"],
     Ord["{"], Ord["}"]}

QueryEncodeSet ==
    {Ord["DQUOTE"], Ord["#"], Ord["<"], Ord[">"]}

FragmentEncodeSet ==
    {Ord["DQUOTE"], Ord["<"], Ord[">"], Ord["BTICK"]}

ParseFailure ==
    [ok |-> FALSE, scheme |-> NULL, host |-> NULL, path |-> NULL,
     query |-> NULL, fragment |-> NULL]

(* Leading and trailing C0 controls and spaces are stripped, then every    *)
(* tab and newline is removed.                                             *)
StripInput(s) ==
    LET keep == {i \in 1..Len(s) : s[i] > 32}
        lo == CHOOSE i \in keep : \A j \in keep : i <= j
        hi == CHOOSE i \in keep : \A j \in keep : i >= j
        NotTabNewline(c) == c \notin {9, 10, 13}
    IN  IF keep = {} THEN <<>>
        ELSE SelectSeq(SubSeq(s, lo, hi), NotTabNewline)

(* What follows the scheme's colon: authority (special schemes only),      *)
(* path, "?" query, "#" fragment.                                          *)
ParseAfterScheme(scheme, rest) ==
    LET special == scheme \in SpecialSchemes
        afterSlashes == Drop(rest, FirstOf(rest, Ascii \ Slashes) - 1)
        authEnd == FirstOf(afterSlashes, Slashes \cup {Ord["?"], Ord["#"]})
        authority == SubSeq(afterSlashes, 1, authEnd - 1)
        tail == IF special THEN Drop(afterSlashes, authEnd - 1) ELSE rest
        pathEnd == FirstOf(tail, {Ord["?"], Ord["#"]})
        rawPath == SubSeq(tail, 1, pathEnd - 1)
        slashed == [i \in 1..Len(rawPath) |->
                      IF rawPath[i] = Ord["BSLASH"] THEN Ord["/"] ELSE rawPath[i]]
        afterPath == Drop(tail, pathEnd - 1)
        hasQuery == afterPath # <<>> /\ afterPath[1] = Ord["?"]
        queryEnd == FirstOf(afterPath, {Ord["#"]})
        rawQuery == SubSeq(afterPath, 2, queryEnd - 1)
        afterQuery == Drop(afterPath, queryEnd - 1)
        querySet == IF special THEN QueryEncodeSet \cup {Ord["'"]}
                    ELSE QueryEncodeSet
    IN  IF special /\ (authority = <<>>
                        \/ \E i \in 1..Len(authority) : authority[i] \in ForbiddenHost)
        THEN ParseFailure
        ELSE [ok |-> TRUE,
              scheme |-> scheme,
              host |-> IF special THEN toLowerCase(authority) ELSE NULL,
              path |-> IF special
                       THEN IF rawPath = <<>> THEN <<Ord["/"]>>
                            ELSE EncodeComponent(slashed, PathEncodeSet)
                       ELSE rawPath,
              query |-> IF hasQuery THEN EncodeComponent(rawQuery, querySet)
                        ELSE NULL,
              fragment |-> IF afterQuery # <<>>
                           THEN EncodeComponent(Tail(afterQuery), FragmentEncodeSet)
                           ELSE NULL]

(* new URL(input) without a base: fails (throws TypeError) unless the      *)
(* input starts with a scheme and a colon.                                 *)
ParseURL(input) ==
    LET s == StripInput(input)
        p == FirstOf(s, Ascii \ SchemeChars)
    IN  IF s = <<>> \/ ~(IsLower(s[1]) \/ IsUpper(s[1])) THEN ParseFailure
        ELSE IF p > Len(s) \/ s[p] # Ord[":"] THEN ParseFailure
        ELSE ParseAfterScheme(toLowerCase(SubSeq(s, 1, p - 1)), Drop(s, p))

RECURSIVE Split(_, _)
Split(s, sep) ==
    LET i == FirstOf(s, {sep})
    IN  IF i > Len(s) THEN <<s>>
        ELSE <<SubSeq(s, 1, i - 1)>> \o Split(Drop(s, i), sep)

(* One name=value pair of a query: split at the first "=", "+" becomes a    *)
(* space, then both halves are percent-decoded.                            *)
ParsePair(bytes) ==
    LET eq == FirstOf(bytes, {Ord["="]})
        Plus(x) == [i \in 1..Len(x) |-> IF x[i] = Ord["+"] THEN Ord[" "] ELSE x[i]]
    IN  <<PercentDecode(Plus(SubSeq(bytes, 1, eq - 1))),
          PercentDecode(Plus(Drop(bytes, eq)))>>

(* The application/x-www-form-urlencoded parser: the list of <<name,       *)
(* value>> pairs of a query (NULL: the URL has no query).                   *)
ParseUrlencoded(query) ==
    LET NonEmpty(x) == x # <<>>
        parts == SelectSeq(Split(query, Ord["&"]), NonEmpty)
    IN  IF query = NULL THEN <<>>
        ELSE [i \in 1..Len(parts) |-> ParsePair(parts[i])]

RECURSIVE SerializeUrlencoded(_)
SerializeUrlencoded(list) ==
    IF list = <<>> THEN <<>>
    ELSE UrlencodedString(list[1][1]) \o <<Ord["="]>> \o UrlencodedString(list[1][2])
         \o (IF Len(list) > 1 THEN <<Ord["&"]>> ELSE <<>>)
         \o SerializeUrlencoded(Tail(list))

(* url.searchParams of a parsed URL.                                       *)
searchParams(url) ==
    ParseUrlencoded(url.query)

searchParams_has(list, name) ==
    \E i \in 1..Len(list) : list[i][1] = name

(* The value of the first pair named name, null if there is none.          *)
searchParams_get(list, name) ==
    IF searchParams_has(list, name)
    THEN list[CHOOSE i \in 1..Len(list) :
                 list[i][1] = name /\ \A j \in 1..(i - 1) : list[j][1] # name][2]
    ELSE NULL

(* set: the first pair named name takes the value and the other pairs of   *)
(* that name are removed; with no such pair, the pair is appended.         *)
ListSet(list, name, value) ==
    LET first == CHOOSE i \in 1..Len(list) :
                    list[i][1] = name /\ \A j \in 1..(i - 1) : list[j][1] # name
        Keep(i) == i = first \/ list[i][1] # name
        kept == SelectSeq([i \in 1..Len(list) |-> i], Keep)
    IN  IF searchParams_has(list, name)
        THEN [j \in 1..Len(kept) |->
                IF kept[j] = first THEN <<name, value>> ELSE list[kept[j]]]
        ELSE Append(list, <<name, value>>)

(* url.searchParams.set(name, value): the list changes and the URL's query *)
(* becomes the serialization of the list.                                  *)
searchParams_set(url, name, value) ==
    [url EXCEPT !.query = SerializeUrlencoded(ListSet(searchParams(url), name, value))]

(* url.toString(): the URL serializer.                                     *)
toString(url) ==
    url.scheme \o <<Ord[":"]>>
      \o (IF url.host # NULL THEN <<Ord["/"], Ord["/"]>> \o url.host ELSE <<>>)
      \o url.path
      \o (IF url.query # NULL THEN <<Ord["?"]>> \o url.query ELSE <<>>)
      \o (IF url.fragment # NULL THEN <<Ord["#"]>> \o url.fragment ELSE <<>>)

-----------------------------------------------------------------------------
(* checkout-utils.ts                                                       *)

Return(v) ==
    [raised |-> "none", value |-> v]

Throw(kind) ==
    [raised |-> kind, value |-> UNDEFINED]

(* A field of an options object, undefined fields taking the default of    *)
(* the destructuring pattern.                                              *)
Option(options, key, default) ==
    IF key \in DOMAIN options THEN options[key] ELSE default

Str_lang == S(<<"l","a","n","g">>)

Str_language == S(<<"l","a","n","g","u","a","g","e">>)

Str_locale == S(<<"l","o","c","a","l","e">>)

Str_embedded == S(<<"e","m","b","e","d","d","e","d">>)

Str_true == S(<<"t","r","u","e">>)

(* ForEachParam without the preserveExisting test: every entry is set.     *)
RECURSIVE ForEachParam_Always(_, _, _)
ForEachParam_Always(url, entries, preserveExisting) ==
    IF entries = <<>> THEN url
    ELSE ForEachParam_Always(searchParams_set(url, entries[1][1], entries[1][2]),
                             Tail(entries), preserveExisting)

(* Object.entries(additionalParams).forEach(...)                           *)
RECURSIVE ForEachParam(_, _, _)
ForEachParam(url, entries, preserveExisting) ==
    IF entries = <<>> THEN url
    ELSE LET key == entries[1][1]
             value == entries[1][2]
         IN  ForEachParam(
                IF preserveExisting \/ ~searchParams_has(searchParams(url), key)
                THEN searchParams_set(url, key, value)
                ELSE url,
                Tail(entries), preserveExisting)

(* SetLanguage writing the key `language` instead of `lang`.               *)
SetLanguage_WrongKey(url, language) ==
    IF ~Falsy(language) THEN searchParams_set(url, Str_language, language) ELSE url

(* SetLanguage with searchParams.append in place of searchParams.set.      *)
SetLanguage_Append(url, language) ==
    IF ~Falsy(language)
    THEN [url EXCEPT !.query =
            SerializeUrlencoded(Append(searchParams(url), <<Str_lang, language>>))]
    ELSE url

(* SetLanguage assigning the whole query instead of setting one parameter. *)
SetLanguage_Replace(url, language) ==
    IF ~Falsy(language)
    THEN [url EXCEPT !.query = SerializeUrlencoded(<< <<Str_lang, language>> >>)]
    ELSE url

(* if (language) url.searchParams.set('lang', language)                    *)
SetLanguage(url, language) ==
    IF ~Falsy(language) THEN searchParams_set(url, Str_lang, language) ELSE url

(* The try block with the two steps exchanged: additionalParams first,     *)
(* then the language.                                                      *)
EnhanceTry_ParamsFirst(e, checkoutUrl, language, additionalParams, preserveExisting) ==
    LET url == ParseURL(checkoutUrl)
    IN  IF ~e.URL THEN Return(checkoutUrl)
        ELSE IF ~url.ok THEN Throw("TypeError")
        ELSE Return(toString(SetLanguage(
                        ForEachParam(url, additionalParams, preserveExisting),
                        language)))

(* The try block of enhanceCheckoutUrl.                                    *)
EnhanceTry(e, checkoutUrl, language, additionalParams, preserveExisting) ==
    LET url == ParseURL(checkoutUrl)
    IN  IF ~e.URL THEN Return(checkoutUrl)
        ELSE IF ~url.ok THEN Throw("TypeError")
        ELSE Return(toString(ForEachParam(SetLanguage(url, language),
                                          additionalParams, preserveExisting)))

(* EnhanceCatch letting the error of the try block through.                *)
EnhanceCatch_Rethrow(attempt, checkoutUrl) ==
    attempt

(* catch (error) { return checkoutUrl; }                                   *)
EnhanceCatch(attempt, checkoutUrl) ==
    IF attempt.raised # "none" THEN Return(checkoutUrl) ELSE attempt

enhanceCheckoutUrl(e, checkoutUrl, options) ==
    IF Falsy(checkoutUrl) THEN Return(NULL)
    ELSE EnhanceCatch(
            EnhanceTry(e, checkoutUrl,
                       Option(options, "language", UNDEFINED),
                       Option(options, "additionalParams", <<>>),
                       Option(options, "preserveExisting", TRUE)),
            checkoutUrl)

(* a ?? b in place of a || b.                                              *)
Or_Nullish(a, b) ==
    IF a # NULL /\ a # UNDEFINED THEN a ELSE b

(* a || b                                                                  *)
Or(a, b) ==
    IF ~Falsy(a) THEN a ELSE b

extractLanguageFromUrl(e, checkoutUrl) ==
    LET url == ParseURL(checkoutUrl)
        params == searchParams(url)
    IN  IF ~e.URL THEN NULL
        ELSE IF ~url.ok THEN NULL
        ELSE Or(Or(searchParams_get(params, Str_lang),
                   searchParams_get(params, Str_language)),
                searchParams_get(params, Str_locale))

(* The positions a match can reach from the positions of from by reading   *)
(* one character of class.                                                 *)
Step(s, from, class) ==
    {i + 1 : i \in {j \in from : j <= Len(s) /\ s[j] \in class}}

LowerClass == {c \in Ascii : IsLower(c)}

UpperClass == {c \in Ascii : IsUpper(c)}

(* The pattern without its closing anchor: /^[a-z]{2}(-[A-Z]{2})?/.        *)
isValidLanguageCode_NoAnchor(language) ==
    Step(language, Step(language, {1}, LowerClass), LowerClass) # {}

(* /^[a-z]{2}(-[A-Z]{2})?$/.test(language)                                 *)
isValidLanguageCode(language) ==
    LET primary == Step(language, Step(language, {1}, LowerClass), LowerClass)
        region == Step(language,
                       Step(language, Step(language, primary, {Ord["-"]}), UpperClass),
                       UpperClass)
    IN  (Len(language) + 1) \in (primary \cup region)

isChromium(e) ==
    LET ua == toLowerCase(e.userAgent)
    IN  IF e.navigator = "absent" THEN Return(FALSE)
        ELSE IF e.navigator = "noUserAgent" THEN Throw("TypeError")
        ELSE Return(\/ includes(ua, S(<<"c","h","r","o","m","e">>))
                    \/ includes(ua, S(<<"c","h","r","o","m","i","u","m">>))
                    \/ includes(ua, S(<<"e","d","g","e">>)))

(* The result is the navigation target after the call.                     *)
redirectToCheckout(e, checkoutUrl, language, location) ==
    LET enhancedUrl ==
            enhanceCheckoutUrl(e, checkoutUrl,
                IF ~Falsy(language) THEN "language" :> language ELSE <<>>).value
    IN  IF e.window = "absent" THEN Throw("Error")
        ELSE IF Falsy(enhancedUrl) THEN Return(location)
        ELSE IF e.window = "noLocation" THEN Throw("TypeError")
        ELSE Return(enhancedUrl)

(* getIframeSafeCheckoutUrl replacing the options object when a language   *)
(* is given, which loses additionalParams.                                 *)
getIframeSafeCheckoutUrl_Reassign(e, checkoutUrl, language) ==
    enhanceCheckoutUrl(e, checkoutUrl,
        IF ~Falsy(language) THEN "language" :> language
        ELSE "additionalParams" :> << <<Str_embedded, Str_true>> >>)

getIframeSafeCheckoutUrl(e, checkoutUrl, language) ==
    LET options == "additionalParams" :> << <<Str_embedded, Str_true>> >>
    IN  enhanceCheckoutUrl(e, checkoutUrl,
            IF ~Falsy(language) THEN options @@ ("language" :> language)
            ELSE options)

-----------------------------------------------------------------------------
(* Inputs and environments                                                 *)

MaxParams == 2

MaxCodeLen == 5

(* globalThis of the execution environment: whether URL is defined,        *)
(* whether window is (and has a location), whether navigator is (and has   *)
(* a userAgent).                                                           *)
Environment(url, window, navigator, userAgent) ==
    [URL |-> url, window |-> window, navigator |-> navigator,
     userAgent |-> userAgent]

Environments ==
    { Environment(TRUE, "ok", "ok", S(<<"C","h","r","o","m","e","/","1","1","7">>)),
      Environment(TRUE, "ok", "ok", S(<<"F","i","r","e","f","o","x","/","1","1","9">>)),
      Environment(TRUE, "ok", "ok", S(<<"C","h","r","o","m","i","u","m">>)),
      Environment(TRUE, "absent", "absent", <<>>),
      Environment(TRUE, "noLocation", "noUserAgent", <<>>),
      Environment(FALSE, "ok", "ok", S(<<"x"," ","E","D","G","E","/","1","8">>)),
      Environment(FALSE, "absent", "absent", <<>>) }

(* The sequences of at most n elements of set.                             *)
RECURSIVE SeqsUpTo(_, _)
SeqsUpTo(set, n) ==
    IF n = 0 THEN {<<>>}
    ELSE LET shorter == SeqsUpTo(set, n - 1)
         IN  shorter \cup {Append(s, x) : s \in shorter, x \in set}

RECURSIVE Join(_)
Join(rawParams) ==
    IF rawParams = <<>> THEN <<>>
    ELSE Head(rawParams)
         \o (IF Len(rawParams) > 1 THEN <<Ord["&"]>> ELSE <<>>)
         \o Join(Tail(rawParams))

(* The URL strings before ++ ("?" ++ p1 & ... & pn) ++ after, n at most    *)
(* MaxParams, the pi among rawParams.                                      *)
UrlsWith(before, rawParams, after) ==
    {before \o (IF q = <<>> THEN <<>> ELSE <<Ord["?"]>> \o Join(q)) \o after :
        q \in SeqsUpTo(rawParams, MaxParams)}

Url_plain == S(<<"h","t","t","p","s",":","/","/","h",".","i","o","/","c">>)

Url_upper == S(<<"H","T","T","P",":","/","/","H",".","i","o">>)

Fragment == S(<<"#","t">>)

Unparseable ==
    { <<>>,
      S(<<"n","o","t"," ","a"," ","u","r","l">>),
      S(<<"h","t","t","p","s",":","/","/">>),
      S(<<"/","/","h",".","i","o","/","c">>),
      S(<<"h","t","t","p","s",":","/","/","h"," ","i","o","/">>) }

(* A URL the parser accepts leniently: surrounding spaces, no slashes      *)
(* after the scheme, a backslash in the path, a quote in the query.        *)
Url_lenient == S(<<" ","h","t","t","p","s",":","h",".","i","o","BSLASH","c","?","q","'"," ">>)

(* A URL of a non-special scheme.                                          *)
Url_opaque == S(<<"m","a","i","l","t","o",":","a","?","l","o","c","a","l","e","=","f","r">>)

EnhanceParams ==
    { S(<<"l","a","n","g","=","e","s">>),
      S(<<"f","o","o","=","a","+","b","%","2","6","c">>),
      S(<<"l","a","n","g","u","a","g","e","=","i","t">>) }

ExtractParams ==
    { S(<<"l","a","n","g","=","d","e">>),
      S(<<"l","a","n","g","=">>),
      S(<<"l","a","n","g","u","a","g","e","=","e","s">>),
      S(<<"l","a","n","g","u","a","g","e">>),
      S(<<"l","o","c","a","l","e","=","f","r">>),
      S(<<"l","o","c","a","l","e","=">>) }

IframeParams ==
    { S(<<"e","m","b","e","d","d","e","d","=","0">>),
      S(<<"l","a","n","g","=","e","s">>) }

EnhanceUrls ==
    UrlsWith(Url_plain, EnhanceParams, <<>>)
      \cup UrlsWith(Url_upper, {S(<<"l","a","n","g","=","e","s">>)}, Fragment)
      \cup Unparseable \cup {Url_lenient, NULL, UNDEFINED}

ExtractUrls ==
    UrlsWith(Url_plain, ExtractParams, <<>>)
      \cup Unparseable \cup {Url_lenient, Url_opaque}

IframeUrls ==
    UrlsWith(Url_plain, IframeParams, Fragment) \cup Unparseable

RedirectUrls ==
    UrlsWith(Url_upper, {S(<<"l","a","n","g","=","e","s">>)}, <<>>)
      \cup Unparseable

Str_foo == S(<<"f","o","o">>)

Languages ==
    { <<>>, S(<<"d","e">>), S(<<"x","+","&","#"," ","=">>) }

AdditionalParams ==
    { << <<Str_foo, S(<<"b","a","z">>)>> >>,
      << <<Str_lang, S(<<"f","r">>)>> >>,
      << <<Str_foo, S(<<"b","&","z">>)>>, <<Str_lang, <<>> >> >> }

(* An options object: each field is given or left out.                     *)
OptionsObjects ==
    { l @@ a @@ p :
        l \in {<<>>} \cup {"language" :> x : x \in Languages},
        a \in {<<>>} \cup {"additionalParams" :> x : x \in AdditionalParams},
        p \in {<<>>} \cup {"preserveExisting" :> x : x \in BOOLEAN} }

CodeAlphabet ==
    {Ord["e"], Ord["N"], Ord["-"], Ord["1"]}

-----------------------------------------------------------------------------
(* One call of one exported function: pc is "idle" before and "done"       *)
(* after; op, args, result and raised record the call; href is             *)
(* window.location.href.                                                   *)

Str_blank == S(<<"a","b","o","u","t",":","b","l","a","n","k">>)

Init ==
    /\ env \in Environments
    /\ pc = "idle"
    /\ op = "none"
    /\ args = <<>>
    /\ result = UNDEFINED
    /\ raised = "none"
    /\ href = Str_blank

Finish(name, arguments, outcome) ==
    /\ pc' = "done"
    /\ op' = name
    /\ args' = arguments
    /\ result' = outcome.value
    /\ raised' = outcome.raised
    /\ UNCHANGED env

CallEnhanceCheckoutUrl ==
    /\ pc = "idle"
    /\ \E u \in EnhanceUrls, o \in OptionsObjects :
          Finish("enhanceCheckoutUrl", [checkoutUrl |-> u, options |-> o],
                 enhanceCheckoutUrl(env, u, o))
    /\ UNCHANGED href

CallExtractLanguageFromUrl ==
    /\ pc = "idle"
    /\ \E u \in ExtractUrls :
          Finish("extractLanguageFromUrl", [checkoutUrl |-> u],
                 Return(extractLanguageFromUrl(env, u)))
    /\ UNCHANGED href

(* extractLanguageFromUrl applied to the URL a call of enhanceCheckoutUrl  *)
(* returned; args keeps the arguments of that call.                        *)
ExtractFromEnhanced ==
    /\ pc = "done"
    /\ op = "enhanceCheckoutUrl"
    /\ IsString(result)
    /\ Finish("extractLanguageFromUrl",
              [checkoutUrl |-> result, enhanced |-> args],
              Return(extractLanguageFromUrl(env, result)))
    /\ UNCHANGED href

CallIsValidLanguageCode ==
    /\ pc = "idle"
    /\ \E s \in SeqsUpTo(CodeAlphabet, MaxCodeLen) :
          Finish("isValidLanguageCode", [language |-> s],
                 Return(isValidLanguageCode(s)))
    /\ UNCHANGED href

CallIsChromium ==
    /\ pc = "idle"
    /\ Finish("isChromium", <<>>, isChromium(env))
    /\ UNCHANGED href

CallRedirectToCheckout ==
    /\ pc = "idle"
    /\ \E u \in RedirectUrls, l \in Languages \cup {UNDEFINED} :
          LET outcome == redirectToCheckout(env, u, l, href)
          IN  /\ Finish("redirectToCheckout", [checkoutUrl |-> u, language |-> l],
                        [outcome EXCEPT !.value = UNDEFINED])
              /\ href' = IF outcome.raised = "none" THEN outcome.value ELSE href

CallGetIframeSafeCheckoutUrl ==
    /\ pc = "idle"
    /\ \E u \in IframeUrls, l \in Languages \cup {UNDEFINED} :
          Finish("getIframeSafeCheckoutUrl", [checkoutUrl |-> u, language |-> l],
                 getIframeSafeCheckoutUrl(env, u, l))
    /\ UNCHANGED href

Next ==
    \/ CallEnhanceCheckoutUrl
    \/ CallExtractLanguageFromUrl
    \/ ExtractFromEnhanced
    \/ CallIsValidLanguageCode
    \/ CallIsChromium
    \/ CallRedirectToCheckout
    \/ CallGetIframeSafeCheckoutUrl

Spec == Init /\ [][Next]_vars

-----------------------------------------------------------------------------
(* Properties                                                              *)

Done(name) ==
    pc = "done" /\ op = name

(* new URL(u) succeeds in this environment.                                *)
Parseable(e, u) ==
    e.URL /\ IsString(u) /\ ParseURL(u).ok

(* The query parameters of a URL string.                                   *)
ParamsOf(u) ==
    searchParams(ParseURL(u))

(* The values of the parameters named key, in order.                       *)
ValuesOf(list, key) ==
    LET Named(pair) == pair[1] = key
        named == SelectSeq(list, Named)
    IN  [i \in 1..Len(named) |-> named[i][2]]

KeysOf(list) ==
    {list[i][1] : i \in 1..Len(list)}

SameOrigin(u, v) ==
    /\ ParseURL(u).scheme = ParseURL(v).scheme
    /\ ParseURL(u).host = ParseURL(v).host
    /\ ParseURL(u).path = ParseURL(v).path

(* The call was enhanceCheckoutUrl(u, {language: L}): no additionalParams. *)
LanguageOnly(o) ==
    /\ "language" \in DOMAIN o
    /\ Option(o, "additionalParams", <<>>) = <<>>

(* C1 as stated: for every parseable checkout URL u and every language     *)
(* string L, enhanceCheckoutUrl(u, {language: L}) is a URL whose lang      *)
(* parameter is L and whose scheme, host and path are those of u.          *)
C1_AnyLanguage ==
    (Done("enhanceCheckoutUrl") /\ Parseable(env, args.checkoutUrl)
        /\ LanguageOnly(args.options))
    => /\ raised = "none" /\ IsString(result)
       /\ searchParams_get(ParamsOf(result), Str_lang) = args.options.language
       /\ SameOrigin(result, args.checkoutUrl)

(* C1 amended: for every parseable checkout URL u and every non-empty      *)
(* language string L, enhanceCheckoutUrl(u, {language: L}) is a URL whose  *)
(* lang parameter is L and whose scheme, host and path are those of u.     *)
C1_NonEmptyLanguage ==
    (Done("enhanceCheckoutUrl") /\ Parseable(env, args.checkoutUrl)
        /\ LanguageOnly(args.options) /\ args.options.language # <<>>)
    => /\ raised = "none" /\ IsString(result)
       /\ searchParams_get(ParamsOf(result), Str_lang) = args.options.language
       /\ SameOrigin(result, args.checkoutUrl)

(* A URL that carried lang=es has been given a language that needs         *)
(* encoding, and the result differs from the input.                        *)
C1_Witness ==
    /\ Done("enhanceCheckoutUrl") /\ Parseable(env, args.checkoutUrl)
    /\ LanguageOnly(args.options)
    /\ args.options.language = S(<<"x","+","&","#"," ","=">>)
    /\ ValuesOf(ParamsOf(args.checkoutUrl), Str_lang) = <<S(<<"e","s">>)>>
    /\ searchParams_get(ParamsOf(result), Str_lang) = args.options.language
    /\ ParseURL(args.checkoutUrl).scheme # SubSeq(args.checkoutUrl, 1, 4)

(* C2 as stated: enhanceCheckoutUrl never raises; it returns null for a    *)
(* null or undefined checkoutUrl, and the input string itself when the     *)
(* string cannot be parsed or no URL parser exists.                        *)
C2_FailSoft ==
    Done("enhanceCheckoutUrl")
    => /\ raised = "none"
       /\ (args.checkoutUrl \in {NULL, UNDEFINED} => result = NULL)
       /\ (IsString(args.checkoutUrl) /\ ~Parseable(env, args.checkoutUrl)
             => result = args.checkoutUrl)

(* C2 amended: enhanceCheckoutUrl never raises; it returns null for a      *)
(* null, undefined or empty checkoutUrl, and the input string itself when  *)
(* a non-empty string cannot be parsed or no URL parser exists.            *)
C2_FailSoftNonEmpty ==
    Done("enhanceCheckoutUrl")
    => /\ raised = "none"
       /\ (args.checkoutUrl \in {NULL, UNDEFINED, <<>>} => result = NULL)
       /\ (IsString(args.checkoutUrl) /\ args.checkoutUrl # <<>>
             /\ ~Parseable(env, args.checkoutUrl)
             => result = args.checkoutUrl)

(* The parser exists, rejected a non-empty string, and the call returned   *)
(* that string although options asked for a language.                      *)
C2_Witness ==
    /\ Done("enhanceCheckoutUrl")
    /\ env.URL /\ IsString(args.checkoutUrl) /\ args.checkoutUrl # <<>>
    /\ ~ParseURL(args.checkoutUrl).ok
    /\ ~Falsy(Option(args.options, "language", UNDEFINED))
    /\ raised = "none" /\ result = args.checkoutUrl

(* The value of the first of lang, language, locale that the list has,     *)
(* null when it has none of them.                                          *)
FirstPresent(list) ==
    IF searchParams_has(list, Str_lang) THEN ValuesOf(list, Str_lang)[1]
    ELSE IF searchParams_has(list, Str_language) THEN ValuesOf(list, Str_language)[1]
    ELSE IF searchParams_has(list, Str_locale) THEN ValuesOf(list, Str_locale)[1]
    ELSE NULL

(* The value of the first of lang, language that the list has with a       *)
(* non-empty value; failing that the value of locale, null without locale. *)
FirstNonEmpty(list) ==
    IF ValuesOf(list, Str_lang) # <<>> /\ ValuesOf(list, Str_lang)[1] # <<>>
    THEN ValuesOf(list, Str_lang)[1]
    ELSE IF ValuesOf(list, Str_language) # <<>> /\ ValuesOf(list, Str_language)[1] # <<>>
    THEN ValuesOf(list, Str_language)[1]
    ELSE IF ValuesOf(list, Str_locale) # <<>> THEN ValuesOf(list, Str_locale)[1]
    ELSE NULL

(* C3 as stated: on a parseable URL extractLanguageFromUrl returns the     *)
(* value of the first of lang, language, locale that is present, and null  *)
(* exactly when none of the three is present.                              *)
C3_FirstPresent ==
    (Done("extractLanguageFromUrl") /\ Parseable(env, args.checkoutUrl))
    => /\ result = FirstPresent(ParamsOf(args.checkoutUrl))
       /\ (result = NULL <=>
             KeysOf(ParamsOf(args.checkoutUrl))
               \cap {Str_lang, Str_language, Str_locale} = {})

(* C3 amended: on a parseable URL extractLanguageFromUrl returns the value *)
(* of the first of lang, language, locale that is present with a non-empty *)
(* value; when none is, it returns the (empty) value of locale if locale   *)
(* is present and null otherwise.                                          *)
C3_FirstNonEmpty ==
    (Done("extractLanguageFromUrl") /\ Parseable(env, args.checkoutUrl))
    => result = FirstNonEmpty(ParamsOf(args.checkoutUrl))

(* language=es and locale=fr without lang: the result is "es".             *)
C3_Witness ==
    /\ Done("extractLanguageFromUrl") /\ Parseable(env, args.checkoutUrl)
    /\ ParamsOf(args.checkoutUrl) =
         << <<Str_language, S(<<"e","s">>)>>, <<Str_locale, S(<<"f","r">>)>> >>
    /\ result = S(<<"e","s">>)

(* C4 as stated: for every parseable URL u and every language L,           *)
(* extractLanguageFromUrl(enhanceCheckoutUrl(u, {language: L})) is L.      *)
C4_RoundTrip ==
    (Done("extractLanguageFromUrl") /\ "enhanced" \in DOMAIN args
        /\ Parseable(env, args.enhanced.checkoutUrl)
        /\ LanguageOnly(args.enhanced.options))
    => result = args.enhanced.options.language

(* C4 amended: for every parseable URL u and every non-empty language L,   *)
(* extractLanguageFromUrl(enhanceCheckoutUrl(u, {language: L})) is L.      *)
C4_RoundTripNonEmpty ==
    (Done("extractLanguageFromUrl") /\ "enhanced" \in DOMAIN args
        /\ Parseable(env, args.enhanced.checkoutUrl)
        /\ LanguageOnly(args.enhanced.options)
        /\ args.enhanced.options.language # <<>>)
    => result = args.enhanced.options.language

(* The URL carried lang=es and language=it before it was enhanced with     *)
(* "de", and "de" is what is extracted.                                    *)
C4_Witness ==
    /\ Done("extractLanguageFromUrl") /\ "enhanced" \in DOMAIN args
    /\ Parseable(env, args.enhanced.checkoutUrl)
    /\ LanguageOnly(args.enhanced.options)
    /\ ParamsOf(args.enhanced.checkoutUrl) =
         << <<Str_lang, S(<<"e","s">>)>>, <<Str_language, S(<<"i","t">>)>> >>
    /\ args.enhanced.options.language = S(<<"d","e">>)
    /\ result = S(<<"d","e">>)

(* The entries of additionalParams of an enhanceCheckoutUrl call.          *)
EntriesOf(o) ==
    Option(o, "additionalParams", <<>>)

C6_RaisesIffNoWindow ==
    Done("redirectToCheckout")
    => LET enhanced ==
               enhanceCheckoutUrl(env, args.checkoutUrl,
                   IF args.language = UNDEFINED THEN <<>>
                   ELSE "language" :> args.language).value
       IN  /\ (raised # "none" <=> env.window = "absent")
           /\ (env.window # "absent"
                 => href = IF enhanced # NULL THEN enhanced ELSE Str_blank)

(* Some lower-cased substring of the user agent is one of the markers.     *)
HasChromiumMarker(ua) ==
    \E m \in {S(<<"c","h","r","o","m","e">>), S(<<"c","h","r","o","m","i","u","m">>),
              S(<<"e","d","g","e">>)} :
       \E i \in 0..(Len(ua) - Len(m)) :
          \A j \in 1..Len(m) :
             ua[i + j] = m[j] \/ (IsUpper(ua[i + j]) /\ ua[i + j] + 32 = m[j])

(* C7 as stated: isChromium never throws; it returns false when no user    *)
(* agent is available and otherwise true exactly when the user agent       *)
(* contains "chrome", "chromium" or "edge", whatever the case.             *)
C7_IsChromiumNeverThrows ==
    Done("isChromium")
    => /\ raised = "none"
       /\ (env.navigator # "ok" => result = FALSE)
       /\ (env.navigator = "ok" => result = HasChromiumMarker(env.userAgent))

(* C8 as stated: on a parseable URL getIframeSafeCheckoutUrl returns a URL *)
(* with embedded=true, and with lang=<language> whenever a language is     *)
(* supplied; on an unparseable URL it returns the original string.         *)
C8_IframeSafe ==
    Done("getIframeSafeCheckoutUrl")
    => /\ raised = "none"
       /\ (Parseable(env, args.checkoutUrl)
             => /\ searchParams_get(ParamsOf(result), Str_embedded) = Str_true
                /\ (args.language # UNDEFINED
                      => searchParams_get(ParamsOf(result), Str_lang) = args.language))
       /\ (~Parseable(env, args.checkoutUrl) => result = args.checkoutUrl)

(* C8 amended: on a parseable URL getIframeSafeCheckoutUrl returns a URL   *)
(* with embedded=true, and with lang=<language> whenever a non-empty       *)
(* language is supplied; on a non-empty unparseable URL it returns the     *)
(* original string, and null on the empty string.                          *)
C8_IframeSafeNonEmpty ==
    Done("getIframeSafeCheckoutUrl")
    => /\ raised = "none"
       /\ (Parseable(env, args.checkoutUrl)
             => /\ ValuesOf(ParamsOf(result), Str_embedded) = <<Str_true>>
                /\ (~Falsy(args.language)
                      => ValuesOf(ParamsOf(result), Str_lang) = <<args.language>>))
       /\ (~Parseable(env, args.checkoutUrl) /\ args.checkoutUrl # <<>>
             => result = args.checkoutUrl)
       /\ (args.checkoutUrl = <<>> => result = NULL)

(* The URL carried embedded=0 and lang=es; with language "de" the result   *)
(* has embedded=true and lang=de.                                          *)
C8_Witness ==
    /\ Done("getIframeSafeCheckoutUrl") /\ Parseable(env, args.checkoutUrl)
    /\ KeysOf(ParamsOf(args.checkoutUrl)) = {Str_embedded, Str_lang}
    /\ args.language = S(<<"d","e">>)
    /\ ValuesOf(ParamsOf(result), Str_embedded) = <<Str_true>>
    /\ ValuesOf(ParamsOf(result), Str_lang) = <<S(<<"d","e">>)>>

(* The keys enhanceCheckoutUrl may write: lang when a language is given,   *)
(* and the keys of additionalParams.                                       *)
WrittenKeys(o) ==
    (IF ~Falsy(Option(o, "language", UNDEFINED)) THEN {Str_lang} ELSE {})
      \cup {EntriesOf(o)[i][1] : i \in 1..Len(EntriesOf(o))}

(* C9: on a parseable URL every query parameter whose key is neither lang  *)
(* (when a language is given) nor a key of additionalParams is in the      *)
(* result with its original value, no other parameter is added, and with   *)
(* no language and no additionalParams scheme, host, path and query        *)
(* parameters are those of the input.                                      *)
C9_Frame ==
    (Done("enhanceCheckoutUrl") /\ Parseable(env, args.checkoutUrl))
    => LET before == ParamsOf(args.checkoutUrl)
           after == ParamsOf(result)
       IN  /\ \A k \in (KeysOf(before) \cup KeysOf(after)) \ WrittenKeys(args.options) :
                 ValuesOf(after, k) = ValuesOf(before, k)
           /\ (WrittenKeys(args.options) = {}
                 => after = before /\ SameOrigin(result, args.checkoutUrl))

(* A URL with foo and language parameters was given a language and a lang  *)
(* entry; foo and language are still there with the values they had.       *)
C9_Witness ==
    /\ Done("enhanceCheckoutUrl") /\ Parseable(env, args.checkoutUrl)
    /\ WrittenKeys(args.options) = {Str_lang}
    /\ ~Falsy(Option(args.options, "language", UNDEFINED))
    /\ ParamsOf(args.checkoutUrl) =
         << <<Str_foo, S(<<"a"," ","b","&","c">>)>>, <<Str_language, S(<<"i","t">>)>> >>
    /\ Len(ParamsOf(result)) = 3
    /\ ValuesOf(ParamsOf(result), Str_foo) = <<S(<<"a"," ","b","&","c">>)>>
    /\ ValuesOf(ParamsOf(result), Str_language) = <<S(<<"i","t">>)>>

(* Two lower-case letters, or two lower-case letters, a hyphen and two     *)
(* upper-case letters.                                                     *)
LanguageCodeShape(s) ==
    \/ Len(s) = 2 /\ IsLower(s[1]) /\ IsLower(s[2])
    \/ /\ Len(s) = 5 /\ IsLower(s[1]) /\ IsLower(s[2]) /\ s[3] = Ord["-"]
       /\ IsUpper(s[4]) /\ IsUpper(s[5])

LangEntries(o) ==
    ValuesOf(EntriesOf(o), Str_lang)

=============================================================================
